---- MODULE Spec2Model ----
(***************************************************************************)
(* Model of the chat session loop of internal/gabychat/main.go.            *)
(*                                                                         *)
(* A Go string / []byte is a sequence of one-character strings, so that    *)
(* strings.TrimSpace, strings.TrimRight and the %q verb are computed       *)
(* character by character.  The process is a state machine whose control   *)
(* points are the places where main blocks or ends: before                 *)
(* gemini.NewClient, inside io.ReadAll, inside ai.Chat, and after exit.    *)
(* One action is the code that runs from one such point to the next.       *)
(***************************************************************************)
EXTENDS Naturals, Sequences, FiniteSets

\* Bound of the model: the number of non-empty reads of os.Stdin in one run.
MaxReads == 3

VARIABLES
    pc,         \* "start" | "read" | "chat" | "exited"; in SpecStmt also
                \* "print" | "append"
    exitStatus, \* process exit status, meaningful once pc = "exited"
    history,    \* main's local history []string
    author,     \* history-tracking: which append put history[i] there
    stdout,     \* records written to os.Stdout, one per Printf
    stderr,     \* records written to os.Stderr, one per Fprintf / log.Fatal
    reads,      \* what each io.ReadAll returned, in order
    calls,      \* the []string argument of each ai.Chat call, in order
    results     \* what each ai.Chat call returned, in order

vars == <<pc, exitStatus, history, author, stdout, stderr, reads, calls, results>>

----------------------------------------------------------------------------
(* Strings *)

\* unicode.IsSpace on the characters a TLA+ string can hold
isSpace(c) == c \in {" ", "\t", "\n", "\r", "\f"}

RECURSIVE TrimLeftSpace(_)
TrimLeftSpace(s) ==
    IF s = <<>> THEN s
    ELSE IF isSpace(Head(s)) THEN TrimLeftSpace(Tail(s))
    ELSE s

RECURSIVE TrimRightSpace(_)
TrimRightSpace(s) ==
    IF s = <<>> THEN s
    ELSE IF isSpace(s[Len(s)]) THEN TrimRightSpace(SubSeq(s, 1, Len(s) - 1))
    ELSE s

\* Variant: a trim that removes at most one character at each end
TrimSpaceOneLayer(s) ==
    LET l == IF s # <<>> /\ isSpace(Head(s)) THEN Tail(s) ELSE s
    IN  IF l # <<>> /\ isSpace(l[Len(l)]) THEN SubSeq(l, 1, Len(l) - 1) ELSE l

\* strings.TrimSpace
TrimSpace(s) == TrimRightSpace(TrimLeftSpace(s))

\* strings.TrimRight(s, cutset), cutset given as the set of its characters
RECURSIVE TrimRight(_, _)
TrimRight(s, cutset) ==
    IF s = <<>> THEN s
    ELSE IF s[Len(s)] \in cutset THEN TrimRight(SubSeq(s, 1, Len(s) - 1), cutset)
    ELSE s

\* strconv's escape of one byte inside a double-quoted Go string
EscapeChar(c) ==
    CASE c = "\n" -> <<"\\", "n">>
      [] c = "\t" -> <<"\\", "t">>
      [] c = "\r" -> <<"\\", "r">>
      [] c = "\f" -> <<"\\", "f">>
      [] c = "\"" -> <<"\\", "\"">>
      [] c = "\\" -> <<"\\", "\\">>
      [] OTHER    -> <<c>>

RECURSIVE EscapeAll(_)
EscapeAll(s) == IF s = <<>> THEN <<>> ELSE EscapeChar(Head(s)) \o EscapeAll(Tail(s))

\* fmt's %q verb applied to a []byte
Quote(data) == <<"\"">> \o EscapeAll(data) \o <<"\"">>

----------------------------------------------------------------------------
(* Fixed texts *)

\* const prompt: the instruction text, which begins and ends with a newline;
\* the 154 lines in between are kept as one element.
prompt ==
    <<"\n",
      "You are a robot who is helping with an open-source project issue tracker. [...] Now it's time for a real interaction with an actual contributor.",
      "\n">>

\* the second element of the history literal
ack ==
    <<"U","n","d","e","r","s","t","o","o","d","."," ",
      "R","e","a","d","y"," ","t","o"," ","g","o",".">>

\* Variant: the history literal without its second element
InitialHistoryNoAck == <<prompt>>

\* the history literal
InitialHistory == <<prompt, ack>>

\* "<user> "
UserCue == <<"<","u","s","e","r",">"," ">>

\* "%q\n" applied to the raw read
RejectEcho(data) == Quote(data) \o <<"\n">>

\* Variant: the reply is displayed with all surrounding whitespace cut
ModelRecordTrimsSpace(next) ==
    <<"\n","<","m","o","d","e","l",">"," ">> \o TrimSpace(next) \o <<"\n","\n">>

\* "\n<model> %s\n\n" applied to the reply with trailing newlines cut
ModelRecord(next) ==
    <<"\n","<","m","o","d","e","l",">"," ">> \o TrimRight(next, {"\n"}) \o <<"\n","\n">>

\* what log.Fatal(err) writes before it exits; the error text is opaque
FatalRecord == <<"log.Fatal(err)", "\n">>

----------------------------------------------------------------------------
(* Inputs *)

\* non-empty results of io.ReadAll(os.Stdin)
RawInputs ==
    { <<"\n","\n">>,
      <<" "," "," ","\n">>,
      <<"h","i">>,
      <<" ","h","i","\n">>,
      <<"\t"," ","a"," ","\n","b"," "," ","\n","\n">> }

\* strings that ai.Chat returns
Replies ==
    { <<"o","k">>,
      <<" ","o","k"," ","\n","\n">>,
      <<>> }

----------------------------------------------------------------------------
(* The process *)

Init ==
    /\ pc = "start"
    /\ exitStatus = 0
    /\ history = <<>>
    /\ author = <<>>
    /\ stdout = <<>>
    /\ stderr = <<>>
    /\ reads = <<>>
    /\ calls = <<>>
    /\ results = <<>>

\* Variant: the construction error is logged without exiting and the loop
\* is entered all the same
NewClientFailIgnored ==
    /\ pc = "start"
    /\ history' = InitialHistory
    /\ author' = <<"priming", "priming">>
    /\ stderr' = stderr \o <<FatalRecord, UserCue>>
    /\ pc' = "read"
    /\ UNCHANGED <<exitStatus, stdout, reads, calls, results>>

\* gemini.NewClient fails: log.Fatal
NewClientFail ==
    /\ pc = "start"
    /\ pc' = "exited"
    /\ exitStatus' = 1
    /\ stderr' = Append(stderr, FatalRecord)
    /\ UNCHANGED <<history, author, stdout, reads, calls, results>>

\* gemini.NewClient succeeds: history is built, the loop is entered and the
\* first cue is written; main then blocks in io.ReadAll
NewClientOk ==
    /\ pc = "start"
    /\ history' = InitialHistory
    /\ author' = <<"priming", "priming">>
    /\ stderr' = Append(stderr, UserCue)
    /\ pc' = "read"
    /\ UNCHANGED <<exitStatus, stdout, reads, calls, results>>

\* Variant: a read error ends the loop as an empty read does
ReadErrBreaks ==
    /\ pc = "read"
    /\ reads' = Append(reads, [kind |-> "err", data |-> <<>>])
    /\ pc' = "exited"
    /\ exitStatus' = 0
    /\ UNCHANGED <<history, author, stdout, stderr, calls, results>>

\* io.ReadAll returns an error: log.Fatal
ReadErr ==
    /\ pc = "read"
    /\ reads' = Append(reads, [kind |-> "err", data |-> <<>>])
    /\ pc' = "exited"
    /\ exitStatus' = 1
    /\ stderr' = Append(stderr, FatalRecord)
    /\ UNCHANGED <<history, author, stdout, calls, results>>

\* Variant: the len(data) == 0 test is missing, so an empty read is handled
\* as a blank one
ReadEmptyContinues ==
    /\ pc = "read"
    /\ Len(reads) < MaxReads
    /\ reads' = Append(reads, [kind |-> "data", data |-> <<>>])
    /\ stderr' = stderr \o <<RejectEcho(<<>>), UserCue>>
    /\ pc' = "read"
    /\ UNCHANGED <<exitStatus, history, author, stdout, calls, results>>

\* io.ReadAll returns no bytes: break, main returns
ReadEmpty ==
    /\ pc = "read"
    /\ reads' = Append(reads, [kind |-> "data", data |-> <<>>])
    /\ pc' = "exited"
    /\ exitStatus' = 0
    /\ UNCHANGED <<history, author, stdout, stderr, calls, results>>

\* Variant: the continue is missing, so a blank read is echoed and then
\* handled as a turn
ReadBlankFallsThrough(data) ==
    /\ pc = "read"
    /\ Len(reads) < MaxReads
    /\ Len(data) # 0
    /\ TrimSpace(data) = <<>>
    /\ reads' = Append(reads, [kind |-> "data", data |-> data])
    /\ stderr' = Append(stderr, RejectEcho(data))
    /\ history' = Append(history, TrimSpace(data))
    /\ author' = Append(author, "operator")
    /\ calls' = Append(calls, history')
    /\ pc' = "chat"
    /\ UNCHANGED <<exitStatus, stdout, results>>

\* Variant: the cue is written once before the loop, so a blank read is
\* echoed and the loop reads again without a new cue
ReadBlankNoCue(data) ==
    /\ pc = "read"
    /\ Len(reads) < MaxReads
    /\ Len(data) # 0
    /\ TrimSpace(data) = <<>>
    /\ reads' = Append(reads, [kind |-> "data", data |-> data])
    /\ stderr' = Append(stderr, RejectEcho(data))
    /\ pc' = "read"
    /\ UNCHANGED <<exitStatus, history, author, stdout, calls, results>>

\* Variant: the echo of a blank read goes to os.Stdout
ReadBlankEchoesToStdout(data) ==
    /\ pc = "read"
    /\ Len(reads) < MaxReads
    /\ Len(data) # 0
    /\ TrimSpace(data) = <<>>
    /\ reads' = Append(reads, [kind |-> "data", data |-> data])
    /\ stdout' = Append(stdout, RejectEcho(data))
    /\ stderr' = Append(stderr, UserCue)
    /\ pc' = "read"
    /\ UNCHANGED <<exitStatus, history, author, calls, results>>

\* Variant: a blank read ends the loop as an empty read does
ReadBlankBreaks(data) ==
    /\ pc = "read"
    /\ Len(reads) < MaxReads
    /\ Len(data) # 0
    /\ TrimSpace(data) = <<>>
    /\ reads' = Append(reads, [kind |-> "data", data |-> data])
    /\ pc' = "exited"
    /\ exitStatus' = 0
    /\ UNCHANGED <<history, author, stdout, stderr, calls, results>>

\* io.ReadAll returns bytes that trim to "": echo, continue, next cue
ReadBlank(data) ==
    /\ pc = "read"
    /\ Len(reads) < MaxReads
    /\ Len(data) # 0
    /\ TrimSpace(data) = <<>>
    /\ reads' = Append(reads, [kind |-> "data", data |-> data])
    /\ stderr' = stderr \o <<RejectEcho(data), UserCue>>
    /\ pc' = "read"
    /\ UNCHANGED <<exitStatus, history, author, stdout, calls, results>>

\* Variant: ai.Chat is given the new turn only, not history
ReadTurnSendsDelta(data) ==
    /\ pc = "read"
    /\ Len(reads) < MaxReads
    /\ Len(data) # 0
    /\ TrimSpace(data) # <<>>
    /\ reads' = Append(reads, [kind |-> "data", data |-> data])
    /\ history' = Append(history, TrimSpace(data))
    /\ author' = Append(author, "operator")
    /\ calls' = Append(calls, <<TrimSpace(data)>>)
    /\ pc' = "chat"
    /\ UNCHANGED <<exitStatus, stdout, stderr, results>>

\* io.ReadAll returns bytes that do not trim to "": the trimmed text is
\* appended and ai.Chat is called with history; main blocks in the call
ReadTurn(data) ==
    /\ pc = "read"
    /\ Len(reads) < MaxReads
    /\ Len(data) # 0
    /\ TrimSpace(data) # <<>>
    /\ reads' = Append(reads, [kind |-> "data", data |-> data])
    /\ history' = Append(history, TrimSpace(data))
    /\ author' = Append(author, "operator")
    /\ calls' = Append(calls, history')
    /\ pc' = "chat"
    /\ UNCHANGED <<exitStatus, stdout, stderr, results>>

\* Variant: the error is logged without exiting and the loop goes on
ChatFailContinues ==
    /\ pc = "chat"
    /\ results' = Append(results, [ok |-> FALSE, next |-> <<>>])
    /\ stderr' = stderr \o <<FatalRecord, UserCue>>
    /\ pc' = "read"
    /\ UNCHANGED <<exitStatus, history, author, stdout, reads, calls>>

\* Variant: a failed call is made again with the same history
ChatFailRetries ==
    /\ pc = "chat"
    /\ results' = Append(results, [ok |-> FALSE, next |-> <<>>])
    /\ calls' = Append(calls, history)
    /\ stderr' = Append(stderr, FatalRecord)
    /\ pc' = "chat"
    /\ UNCHANGED <<exitStatus, history, author, stdout, reads>>

\* ai.Chat returns an error: log.Fatal
ChatFail ==
    /\ pc = "chat"
    /\ results' = Append(results, [ok |-> FALSE, next |-> <<>>])
    /\ pc' = "exited"
    /\ exitStatus' = 1
    /\ stderr' = Append(stderr, FatalRecord)
    /\ UNCHANGED <<history, author, stdout, reads, calls>>

\* Variant: history is cut back to the priming pair and the latest exchange
ChatOkKeepsLastExchange(next) ==
    /\ pc = "chat"
    /\ results' = Append(results, [ok |-> TRUE, next |-> next])
    /\ stdout' = Append(stdout, ModelRecord(next))
    /\ history' = InitialHistory \o <<history[Len(history)], next>>
    /\ author' = <<"priming", "priming", "operator", "backend">>
    /\ stderr' = Append(stderr, UserCue)
    /\ pc' = "read"
    /\ UNCHANGED <<exitStatus, reads, calls>>

\* Variant: the reply is printed but not appended to history
ChatOkDropsReply(next) ==
    /\ pc = "chat"
    /\ results' = Append(results, [ok |-> TRUE, next |-> next])
    /\ stdout' = Append(stdout, ModelRecord(next))
    /\ stderr' = Append(stderr, UserCue)
    /\ pc' = "read"
    /\ UNCHANGED <<exitStatus, history, author, reads, calls>>

\* Variant: the reply is stored as displayed, trailing newlines cut
ChatOkStoresTrimmed(next) ==
    /\ pc = "chat"
    /\ results' = Append(results, [ok |-> TRUE, next |-> next])
    /\ stdout' = Append(stdout, ModelRecord(next))
    /\ history' = Append(history, TrimRight(next, {"\n"}))
    /\ author' = Append(author, "backend")
    /\ stderr' = Append(stderr, UserCue)
    /\ pc' = "read"
    /\ UNCHANGED <<exitStatus, reads, calls>>

\* ai.Chat returns next: print it, append it, loop, next cue
ChatOk(next) ==
    /\ pc = "chat"
    /\ results' = Append(results, [ok |-> TRUE, next |-> next])
    /\ stdout' = Append(stdout, ModelRecord(next))
    /\ history' = Append(history, next)
    /\ author' = Append(author, "backend")
    /\ stderr' = Append(stderr, UserCue)
    /\ pc' = "read"
    /\ UNCHANGED <<exitStatus, reads, calls>>

Next ==
    \/ NewClientFail
    \/ NewClientOk
    \/ ReadErr
    \/ ReadEmpty
    \/ \E data \in RawInputs : ReadBlank(data)
    \/ \E data \in RawInputs : ReadTurn(data)
    \/ ChatFail
    \/ \E next \in Replies : ChatOk(next)

Spec == Init /\ [][Next]_vars

----------------------------------------------------------------------------
(* The same process, the successful return of ai.Chat taken one statement
   at a time: the return, the Printf, the append.  The local variable next
   is the latest element of results. *)

\* ai.Chat returns next with a nil error
ChatReturns(next) ==
    /\ pc = "chat"
    /\ results' = Append(results, [ok |-> TRUE, next |-> next])
    /\ pc' = "print"
    /\ UNCHANGED <<exitStatus, history, author, stdout, stderr, reads, calls>>

\* fmt.Printf of the reply
PrintReply ==
    /\ pc = "print"
    /\ stdout' = Append(stdout, ModelRecord(results[Len(results)].next))
    /\ pc' = "append"
    /\ UNCHANGED <<exitStatus, history, author, stderr, reads, calls, results>>

\* history = append(history, next), then the loop's next cue
AppendReply ==
    /\ pc = "append"
    /\ history' = Append(history, results[Len(results)].next)
    /\ author' = Append(author, "backend")
    /\ stderr' = Append(stderr, UserCue)
    /\ pc' = "read"
    /\ UNCHANGED <<exitStatus, stdout, reads, calls, results>>

NextStmt ==
    \/ NewClientFail
    \/ NewClientOk
    \/ ReadErr
    \/ ReadEmpty
    \/ \E data \in RawInputs : ReadBlank(data)
    \/ \E data \in RawInputs : ReadTurn(data)
    \/ ChatFail
    \/ \E next \in Replies : ChatReturns(next)
    \/ PrintReply
    \/ AppendReply

SpecStmt == Init /\ [][NextStmt]_vars

----------------------------------------------------------------------------
(* The process with the assumptions under which it ends: a started
   NewClient, io.ReadAll or ai.Chat returns, and the input stream does not
   withhold its end (a zero-byte read or an error) for ever. *)

LiveSpec ==
    /\ Spec
    /\ WF_vars(NewClientFail \/ NewClientOk)
    /\ WF_vars(ChatFail \/ \E next \in Replies : ChatOk(next))
    /\ WF_vars(ReadErr \/ ReadEmpty
                  \/ \E data \in RawInputs : (ReadBlank(data) \/ ReadTurn(data)))
    /\ SF_vars(ReadErr \/ ReadEmpty)

----------------------------------------------------------------------------
(* Vocabulary of the properties *)

Last(s) == s[Len(s)]

\* the loop has been entered: its first cue is on the diagnostic stream
LoopEntered == stderr # <<>> /\ stderr[1] = UserCue

\* a non-empty input made of whitespace only
IsBlank(d) == d # <<>> /\ \A i \in 1..Len(d) : isSpace(d[i])

\* a zero-byte read
IsZeroRead(r) == r.kind = "data" /\ r.data = <<>>

\* this step completes a read, whose result is Last(reads')
ReadStep == Len(reads') = Len(reads) + 1

\* the reads so far that were neither empty, blank nor failed
RECURSIVE NonBlankCount(_)
NonBlankCount(rs) ==
    IF rs = <<>> THEN 0
    ELSE NonBlankCount(Tail(rs))
         + (IF Head(rs).kind = "data" /\ Head(rs).data # <<>> /\ ~IsBlank(Head(rs).data)
            THEN 1 ELSE 0)

\* a read that is accepted as an operator turn
IsTurnRead(r) == r.kind = "data" /\ r.data # <<>> /\ ~IsBlank(r.data)

\* the accepted reads, in order
TurnReads(rs) == SelectSeq(rs, IsTurnRead)

\* d without its leading and trailing whitespace, for d not blank: the part
\* of d from its first to its last non-whitespace character
TrimmedOf(d) ==
    LET ends == CHOOSE p \in (1..Len(d)) \X (1..Len(d)) :
                    /\ p[1] <= p[2]
                    /\ ~isSpace(d[p[1]])
                    /\ ~isSpace(d[p[2]])
                    /\ \A k \in 1..Len(d) : (k < p[1] \/ k > p[2]) => isSpace(d[k])
    IN  SubSeq(d, ends[1], ends[2])

\* the entries that follow the priming pair when the accepted reads are
\* turns and the k-th, (k+1)-th, ... backend results rs are their replies
RECURSIVE Exchanges(_, _)
Exchanges(turns, rs) ==
    IF turns = <<>> THEN <<>>
    ELSE <<TrimmedOf(Head(turns).data), Head(rs).next>> \o Exchanges(Tail(turns), Tail(rs))

RECURSIVE OkCount(_)
OkCount(rs) ==
    IF rs = <<>> THEN 0
    ELSE OkCount(Tail(rs)) + (IF Head(rs).ok THEN 1 ELSE 0)

----------------------------------------------------------------------------
(* Properties *)

\* C1: from the first cue onward the transcript has at least two entries,
\* and entries 1 and 2 are the instruction prompt and the acknowledgment.
Inv_C1_Priming ==
    LoopEntered =>
        /\ Len(history) >= 2
        /\ history[1] = prompt
        /\ history[2] = ack

\* C1 case: two backend calls and a blank read have happened.
W_C1_Priming ==
    /\ LoopEntered
    /\ Len(calls) >= 2
    /\ \E i \in 1..Len(reads) : IsBlank(reads[i].data)
    /\ Len(history) >= 4

\* C2: after the priming pair the entries alternate authorship, operator
\* at 3, 5, 7, ... and backend at 4, 6, 8, ..., so no two neighbours share it.
Inv_C2_Alternation ==
    /\ Len(author) = Len(history)
    /\ \A i \in 3..Len(history) :
          author[i] = (IF i % 2 = 1 THEN "operator" ELSE "backend")
    /\ \A i \in 3..(Len(history) - 1) : author[i] # author[i + 1]

\* C2 case: a blank read, two accepted turns, one reply, then a backend failure.
W_C2_Alternation ==
    /\ pc = "exited"
    /\ results # <<>>
    /\ ~Last(results).ok
    /\ Len(history) = 5
    /\ \E i \in 1..Len(reads) : IsBlank(reads[i].data)

\* C3: the entry appended for a successful call is the string the backend
\* returned, and that is what every later call receives in that position.
Inv_C3_AppendFidelity ==
    \A k \in 1..Len(results) :
        results[k].ok =>
            /\ Len(history) >= 2 * k + 2
            /\ history[2 * k + 2] = results[k].next
            /\ \A j \in (k + 1)..Len(calls) : calls[j][2 * k + 2] = results[k].next

\* C3 case: a reply ending in newlines was displayed without them, stored,
\* and sent again in a later call.
W_C3_AppendFidelity ==
    \E k \in 1..Len(results) :
        /\ results[k].ok
        /\ results[k].next # <<>>
        /\ Last(results[k].next) = "\n"
        /\ Len(stdout) >= k
        /\ stdout[k] # <<"\n","<","m","o","d","e","l",">"," ">> \o results[k].next \o <<"\n","\n">>
        /\ Len(calls) > k
        /\ calls[k + 1][2 * k + 2] = results[k].next

\* C4: a blank read changes neither the transcript nor the primary output,
\* starts no backend call and leaves the loop awaiting input after a new cue;
\* so the transcript holds the priming pair, one entry per non-blank read and
\* one per successful call, whatever number of blank reads came between.
Step_C4_BlankRejected ==
    (ReadStep /\ IsBlank(Last(reads').data)) =>
        /\ history' = history
        /\ calls' = calls
        /\ results' = results
        /\ stdout' = stdout
        /\ pc' = "read"
        /\ Len(stderr') > Len(stderr)
        /\ Last(stderr') = UserCue

\* C4: every step rejects a blank read as Step_C4_BlankRejected says, and in
\* every state the transcript has no entry for a blank read.
Prop_C4_BlankRejected ==
    /\ [](Len(history) = 2 + NonBlankCount(reads) + OkCount(results) \/ ~LoopEntered)
    /\ [][Step_C4_BlankRejected]_vars

\* C4 case: two blank reads in a row after an accepted turn.
W_C4_BlankRejected ==
    /\ Len(reads) = 3
    /\ ~IsBlank(reads[1].data)
    /\ IsBlank(reads[2].data)
    /\ IsBlank(reads[3].data)
    /\ Len(history) = 4
    /\ pc = "read"

\* C5: a zero-byte read ends the session with status zero, changes neither
\* the transcript nor any stream, and nothing happens after it.
Step_C5_ZeroReadEnds ==
    /\ (ReadStep /\ IsZeroRead(Last(reads'))) =>
          /\ pc' = "exited"
          /\ exitStatus' = 0
          /\ history' = history
          /\ calls' = calls
          /\ results' = results
          /\ stdout' = stdout
          /\ stderr' = stderr
    /\ (reads # <<>> /\ IsZeroRead(Last(reads))) => UNCHANGED vars

\* C5: every step obeys Step_C5_ZeroReadEnds: a zero-byte read ends the
\* session cleanly and no step follows it.
Prop_C5_ZeroReadEnds == [][Step_C5_ZeroReadEnds]_vars

\* C5 case: the session ended on a zero-byte read after a completed exchange.
W_C5_ZeroReadEnds ==
    /\ pc = "exited"
    /\ exitStatus = 0
    /\ IsZeroRead(Last(reads))
    /\ Len(history) >= 4

\* C6: a failed backend call ends the process at once with a non-zero
\* status: the transcript is the one given to that call, the operator's
\* turn last and no reply after it, nothing was printed for the turn, and
\* no read or call follows (the failed call is the last of both logs).
Inv_C6_BackendFailure ==
    \A k \in 1..Len(results) :
        ~results[k].ok =>
            /\ k = Len(results)
            /\ Len(calls) = k
            /\ pc = "exited"
            /\ exitStatus # 0
            /\ history = calls[k]
            /\ Len(history) = 2 * k + 1
            /\ author[Len(history)] = "operator"
            /\ Last(history) = TrimmedOf(Last(reads).data)
            /\ Len(stdout) = k - 1
            /\ Len(TurnReads(reads)) = k
            /\ IsTurnRead(Last(reads))

\* C6 case: the second call of a session failed.
W_C6_BackendFailure ==
    /\ Len(results) = 2
    /\ results[1].ok
    /\ ~results[2].ok
    /\ pc = "exited"
    /\ exitStatus = 1
    /\ Len(stdout) = 1

\* C7: when the session has ended on a zero-byte read, the transcript is the
\* priming pair followed, for each non-blank read in order, by its trimmed
\* text and the reply returned for it; blank reads contribute nothing.
Inv_C7_FinalTranscript ==
    (pc = "exited" /\ exitStatus = 0) =>
        /\ Len(results) = Len(TurnReads(reads))
        /\ history = <<prompt, ack>> \o Exchanges(TurnReads(reads), results)

\* C7 case: a session of a blank read, two accepted reads whose raw text
\* had whitespace to trim, and the closing zero-byte read.
W_C7_FinalTranscript ==
    /\ pc = "exited"
    /\ exitStatus = 0
    /\ Len(reads) = 4
    /\ \E i \in 1..3 : IsBlank(reads[i].data)
    /\ Len(history) = 6
    /\ history[3] = <<"h","i">>
    /\ \E i \in 1..3 : IsTurnRead(reads[i]) /\ reads[i].data # TrimmedOf(reads[i].data)

\* C8 as stated: the loop stops only as the result of a zero-byte read.
Inv_C8_OnlyZeroReadStops ==
    (LoopEntered /\ pc = "exited") => (reads # <<>> /\ IsZeroRead(Last(reads)))

\* C8, amended: the loop ends normally, with status zero, when and only when
\* a read yields zero bytes; it otherwise stops only by a fatal exit with a
\* non-zero status, on a failed read or a failed backend call.
Inv_C8_StopsOfTheLoop ==
    /\ (reads # <<>> /\ IsZeroRead(Last(reads))) => (pc = "exited" /\ exitStatus = 0)
    /\ \A i \in 1..(Len(reads) - 1) : ~IsZeroRead(reads[i]) /\ reads[i].kind # "err"
    /\ (LoopEntered /\ pc = "exited" /\ exitStatus = 0) =>
          (reads # <<>> /\ IsZeroRead(Last(reads)))
    /\ (LoopEntered /\ pc = "exited" /\ exitStatus # 0) =>
          \/ reads # <<>> /\ Last(reads).kind = "err"
          \/ results # <<>> /\ ~Last(results).ok

\* C8 case: the loop ended normally on a zero-byte read that followed a
\* blank read, no call having been made.
W_C8_StopsOfTheLoop ==
    /\ LoopEntered
    /\ pc = "exited"
    /\ exitStatus = 0
    /\ calls = <<>>
    /\ Len(reads) = 2
    /\ IsBlank(reads[1].data)
    /\ IsZeroRead(reads[2])

\* C9: a zero-byte read ends the loop normally and writes no echo; a read of
\* one or more whitespace bytes does not end it and writes the quoted echo
\* of the raw bytes and then a new cue.
Step_C9_ZeroVersusBlank ==
    ReadStep =>
        LET r == Last(reads') IN
        /\ IsZeroRead(r) => (pc' = "exited" /\ exitStatus' = 0 /\ stderr' = stderr)
        /\ (r.kind = "data" /\ IsBlank(r.data)) =>
              /\ pc' = "read"
              /\ exitStatus' = exitStatus
              /\ stderr' = stderr \o <<Quote(r.data) \o <<"\n">>, UserCue>>

\* C9: every step that completes a read obeys Step_C9_ZeroVersusBlank: zero
\* bytes end the loop without an echo, blank bytes are echoed and re-prompted.
Prop_C9_ZeroVersusBlank == [][Step_C9_ZeroVersusBlank]_vars

\* C9 case: the blank read "\n\n" was echoed as "\n\n" in quotes and the
\* loop went on, then a zero-byte read ended it with no further echo.
W_C9_ZeroVersusBlank ==
    /\ Len(reads) >= 2
    /\ reads[Len(reads) - 1].data = <<"\n","\n">>
    /\ IsZeroRead(Last(reads))
    /\ pc = "exited"
    /\ Len(stderr) >= 3
    /\ stderr[Len(stderr) - 1] = <<"\"","\\","n","\\","n","\"","\n">>
    /\ Last(stderr) = UserCue

\* C10: the argument of the k-th call is the transcript as it stood at the
\* call: the priming pair, the earlier turns and replies, and last the
\* trimmed text of the k-th accepted read; the (k+1)-th argument is the k-th
\* extended by the k-th reply and the (k+1)-th operator turn.
Inv_C10_FullTranscriptSent ==
    /\ Len(calls) = Len(TurnReads(reads))
    /\ pc = "chat" => Last(calls) = history
    /\ \A k \in 1..Len(calls) :
          /\ Len(calls[k]) = 2 * k + 1
          /\ calls[k] = SubSeq(history, 1, 2 * k + 1)
          /\ calls[k][1] = prompt
          /\ calls[k][2] = ack
          /\ Last(calls[k]) = TrimmedOf(TurnReads(reads)[k].data)
    /\ \A k \in 1..(Len(calls) - 1) :
          calls[k + 1] =
              calls[k] \o <<results[k].next, TrimmedOf(TurnReads(reads)[k + 1].data)>>

\* C10 case: a second call is in progress, its argument two entries longer
\* than the first call's.
W_C10_FullTranscriptSent ==
    /\ pc = "chat"
    /\ Len(calls) = 2
    /\ Len(calls[2]) = Len(calls[1]) + 2
    /\ SubSeq(calls[2], 1, Len(calls[1])) = calls[1]
    /\ calls[2] = history

----------------------------------------------------------------------------
(* Further vocabulary *)

\* a is a prefix of b
IsPrefix(a, b) == Len(a) <= Len(b) /\ SubSeq(b, 1, Len(a)) = a

IsCue(rec) == rec = UserCue

\* the prompt cues on a stream
CueCount(stream) == Len(SelectSeq(stream, IsCue))

\* the process ended at startup: the fatal record is the first thing written
StartupFailed == stderr # <<>> /\ stderr[1] = FatalRecord

\* C11: across every step the transcript before is a prefix of the
\* transcript after, and a step of the loop appends at most one entry.
Step_C11_AppendOnly ==
    /\ IsPrefix(history, history')
    /\ IsPrefix(author, author')
    /\ (pc # "start") => Len(history') <= Len(history) + 1

\* C11: every step obeys Step_C11_AppendOnly: no entry of the transcript is
\* removed, replaced or reordered, and at most one is appended per step.
Prop_C11_AppendOnly == [][Step_C11_AppendOnly]_vars

\* C11 case: the transcript has grown by two complete exchanges.
W_C11_AppendOnly ==
    /\ Len(history) = 6
    /\ Len(results) = 2
    /\ pc = "read"

\* C12: a failed read ends the process with a non-zero status; that step
\* changes neither the transcript nor the primary output, starts no backend
\* call, writes only the fatal record (no echo, no cue), and no step follows.
Step_C12_ReadError ==
    /\ (ReadStep /\ Last(reads').kind = "err") =>
          /\ pc' = "exited"
          /\ exitStatus' # 0
          /\ history' = history
          /\ calls' = calls
          /\ results' = results
          /\ stdout' = stdout
          /\ stderr' = Append(stderr, FatalRecord)
    /\ (reads # <<>> /\ Last(reads).kind = "err") => UNCHANGED vars

\* C12: every step obeys Step_C12_ReadError: a read error is fatal from
\* within the loop and nothing runs after it.
Prop_C12_ReadError == [][Step_C12_ReadError]_vars

\* C12 case: the read failed after a completed exchange and a blank read.
W_C12_ReadError ==
    /\ pc = "exited"
    /\ exitStatus = 1
    /\ Len(reads) = 3
    /\ reads[3].kind = "err"
    /\ IsBlank(reads[2].data)
    /\ Len(history) = 4
    /\ Len(calls) = 1

\* C13: one cue is written at the start of each iteration, before its read:
\* while a read is awaited the cues are one more than the completed reads and
\* the cue is the latest record; otherwise (a call in progress, or the
\* process ended inside the loop) the cues equal the completed reads.
Inv_C13_OneCuePerRead ==
    LoopEntered =>
        /\ CueCount(stderr) = Len(reads) + (IF pc = "read" THEN 1 ELSE 0)
        /\ (pc = "read") => Last(stderr) = UserCue
        /\ (pc = "chat") => CueCount(stderr) = Len(reads)

\* C13 case: one blank read then one non-blank read; two cues precede the
\* single backend call, which is in progress.
W_C13_OneCuePerRead ==
    /\ pc = "chat"
    /\ Len(reads) = 2
    /\ IsBlank(reads[1].data)
    /\ Len(calls) = 1
    /\ CueCount(stderr) = 2

\* C14: when the construction of the backend client fails the process has
\* exited with a non-zero status and the loop was never entered: no cue, no
\* read, no backend call, no transcript, nothing on the primary output.
Inv_C14_StartupFailure ==
    StartupFailed =>
        /\ pc = "exited"
        /\ exitStatus # 0
        /\ stderr = <<FatalRecord>>
        /\ CueCount(stderr) = 0
        /\ reads = <<>>
        /\ calls = <<>>
        /\ results = <<>>
        /\ history = <<>>
        /\ stdout = <<>>

\* C14 case: the client could not be built.
W_C14_StartupFailure ==
    /\ StartupFailed
    /\ pc = "exited"
    /\ exitStatus = 1
    /\ history = <<>>

\* s without its trailing newline characters: the longest prefix of s that
\* does not end in a newline
WithoutTrailingNewlines(s) ==
    LET n == CHOOSE m \in 0..Len(s) :
                 /\ (m = 0 \/ s[m] # "\n")
                 /\ \A i \in (m + 1)..Len(s) : s[i] = "\n"
    IN  SubSeq(s, 1, n)

\* the entries of the transcript appended from backend replies
BackendEntries == Len(SelectSeq(author, LAMBDA a : a = "backend"))

\* C15: each successful call has one record on the primary output, equal to
\* "\n<model> ", the reply without its trailing newlines, and "\n\n"; the
\* record is written after the call has returned (no record yet for a reply
\* that has just come back) and before the reply is appended (the records
\* are one ahead of the appended replies between the two statements).
Inv_C15_ModelRecord ==
    /\ Len(stdout) = OkCount(results) - (IF pc = "print" THEN 1 ELSE 0)
    /\ BackendEntries = Len(stdout) - (IF pc = "append" THEN 1 ELSE 0)
    /\ \A k \in 1..Len(stdout) :
          /\ results[k].ok
          /\ stdout[k] = <<"\n","<","m","o","d","e","l",">"," ">>
                           \o WithoutTrailingNewlines(results[k].next)
                           \o <<"\n","\n">>

\* C15 case: the second reply, " ok \n\n", has been printed as
\* "\n<model>  ok \n\n" and is not yet appended.
W_C15_ModelRecord ==
    /\ pc = "append"
    /\ Len(stdout) = 2
    /\ results[2].next = <<" ","o","k"," ","\n","\n">>
    /\ stdout[2] = <<"\n","<","m","o","d","e","l",">"," "," ","o","k"," ","\n","\n">>
    /\ Len(history) = 5

IsModelRecord(rec) ==
    /\ Len(rec) >= 9
    /\ SubSeq(rec, 1, 9) = <<"\n","<","m","o","d","e","l",">"," ">>

IsEchoRecord(rec) == rec # <<>> /\ rec[1] = "\""

\* the echoes of the blank reads among rs, in order
RECURSIVE BlankEchoes(_)
BlankEchoes(rs) ==
    IF rs = <<>> THEN <<>>
    ELSE (IF IsBlank(Head(rs).data) THEN <<Quote(Head(rs).data) \o <<"\n">>>> ELSE <<>>)
         \o BlankEchoes(Tail(rs))

Inv_C16_Streams ==
    /\ Len(stdout) = OkCount(results)
    /\ \A i \in 1..Len(stdout) : IsModelRecord(stdout[i])
    /\ \A i \in 1..Len(stderr) :
          /\ ~IsModelRecord(stderr[i])
          /\ (IsCue(stderr[i]) \/ IsEchoRecord(stderr[i]) \/ stderr[i] = FatalRecord)
    /\ SelectSeq(stderr, IsEchoRecord) = BlankEchoes(reads)

Step_C16_Streams ==
    (stdout' # stdout) =>
        /\ Len(results') = Len(results) + 1
        /\ Last(results').ok
        /\ reads' = reads
        /\ Len(stdout') = Len(stdout) + 1

\* C16: cues and echoes are on the diagnostic stream only and replies on the
\* primary output only; the primary output has one record per successful
\* call, and only the step of a successful call adds to it (a blank read or
\* a cue never does).
Prop_C16_Streams == []Inv_C16_Streams /\ [][Step_C16_Streams]_vars

\* C16 case: two blank reads were echoed and one reply printed.
W_C16_Streams ==
    /\ Len(stdout) = 1
    /\ Len(SelectSeq(stderr, IsEchoRecord)) = 2
    /\ CueCount(stderr) = 4
    /\ pc = "read"

\* the entries of a transcript with authors a that came from operator turns
OperatorCount(a) == Len(SelectSeq(a, LAMBDA x : x = "operator"))

Inv_C17_OneCallPerTurn ==
    /\ Len(calls) = OperatorCount(author)
    /\ Len(calls) = Len(TurnReads(reads))
    /\ Len(results) = Len(calls) - (IF pc = "chat" THEN 1 ELSE 0)
    /\ \A k \in 1..Len(results) : ~results[k].ok => (k = Len(results) /\ Len(calls) = k)

Step_C17_OneCallPerTurn ==
    /\ (Len(calls') # Len(calls) \/ OperatorCount(author') # OperatorCount(author)) =>
          /\ ReadStep
          /\ IsTurnRead(Last(reads'))
          /\ history' = Append(history, TrimmedOf(Last(reads').data))
          /\ author' = Append(author, "operator")
          /\ calls' = Append(calls, history')
          /\ pc' = "chat"
    /\ (pc = "chat") => (reads' = reads /\ calls' = calls)

\* C17: the calls started equal the operator entries of the transcript (and
\* the accepted reads); a call starts in the very step that appends its
\* operator turn, no read happens while it is in progress, and a failed call
\* is the last call.
Prop_C17_OneCallPerTurn == []Inv_C17_OneCallPerTurn /\ [][Step_C17_OneCallPerTurn]_vars

\* C17 case: two turns accepted around a blank read, two calls, the second
\* failed.
W_C17_OneCallPerTurn ==
    /\ Len(calls) = 2
    /\ OperatorCount(author) = 2
    /\ Len(reads) = 3
    /\ IsBlank(reads[2].data)
    /\ Len(results) = 2
    /\ ~results[2].ok

\* C18: every operator entry is non-empty, does not begin or end with a
\* whitespace character, and is the raw read it came from with a run of
\* whitespace removed at each end and nothing else changed.
Inv_C18_OperatorEntryTrimmed ==
    \A i \in 3..Len(history) :
        author[i] = "operator" =>
            LET e   == history[i]
                raw == TurnReads(reads)[(i - 1) \div 2].data
            IN  /\ e # <<>>
                /\ ~isSpace(e[1])
                /\ ~isSpace(e[Len(e)])
                /\ \E a \in 0..Len(raw) :
                      /\ a + Len(e) <= Len(raw)
                      /\ SubSeq(raw, a + 1, a + Len(e)) = e
                      /\ \A j \in 1..a : isSpace(raw[j])
                      /\ \A j \in (a + Len(e) + 1)..Len(raw) : isSpace(raw[j])

\* C18 case: the read "\t a \nb  \n\n", with two whitespace characters in
\* front and four behind, is stored as "a \nb".
W_C18_OperatorEntryTrimmed ==
    \E i \in 3..Len(history) :
        /\ author[i] = "operator"
        /\ history[i] = <<"a"," ","\n","b">>
        /\ TurnReads(reads)[(i - 1) \div 2].data
              = <<"\t"," ","a"," ","\n","b"," "," ","\n","\n">>

Step_C19_NoOtherEnd ==
    (pc # "exited" /\ pc' = "exited") =>
        \/ pc = "start"
        \/ ReadStep /\ (IsZeroRead(Last(reads')) \/ Last(reads').kind = "err")
        \/ Len(results') = Len(results) + 1 /\ ~Last(results').ok

\* C19: if every started read and call returns and the input stream in the
\* end delivers a zero-byte read or an error, the session reaches its end;
\* and the session ends in no other way than a zero-byte read, a read
\* error, a backend error or the startup failure: no blank or non-blank
\* read and no reply ends it.
Prop_C19_Termination == <>(pc = "exited") /\ [][Step_C19_NoOtherEnd]_vars

\* C19 case: the session ended only after the reads of a full run, the
\* last of them the zero-byte read.
W_C19_Termination ==
    /\ pc = "exited"
    /\ Len(reads) = MaxReads + 1
    /\ IsZeroRead(Last(reads))
    /\ Len(results) = MaxReads

====
